---- MODULE Spec2Model ----
(***************************************************************************)
(* Asynchronous video-analysis jobs of the healthwise-afya-siri backend:   *)
(* the in-memory job registry (routes.py, processing_jobs), the background *)
(* worker (process_video_in_background), the status poll                   *)
(* (check_job_status) and the media pipeline of media_service.py           *)
(* (process_video_frames, extract_audio_from_video, process_video_audio,   *)
(* process_comprehensive_video).                                           *)
(*                                                                         *)
(* Texts are modelled by the string literal the code returns (shortened);  *)
(* the text of a successful external call is an opaque token.  The         *)
(* GeminiService methods are modelled by the value their body produces;    *)
(* media_service.summarize_video_analysis is the service's                 *)
(* _summarize_video_analysis.  The HTTP layer (request validation,         *)
(* save_uploaded_file) is outside the model: a submission arrives with a   *)
(* saved file path.  utils.convert_audio_to_wav is a coroutine function    *)
(* that process_video_audio calls without await: the model has both the    *)
(* coroutine object the call yields and the value of the function's body.  *)
(*                                                                         *)
(* Spec: several jobs at once.  PipelineSpec: one job through every        *)
(* outcome of its pipeline.  LiveSpec: PipelineSpec with a fairly          *)
(* scheduled worker and external calls that may not answer.  CallSpec:     *)
(* the frame samplers and the audio extractor called on their own.         *)
(***************************************************************************)
EXTENDS Integers, Sequences, FiniteSets, TLC

\* ------------------------------------------------------------------ bounds
\* number of submissions (worker threads started) in a behaviour
MaxThreads == 2
\* largest frame count cv2 reports for a submitted video
MaxFrameCount == 2
\* largest frame count and largest max_frames given to a frame sampler
MaxSampleFrames == 12
MaxSampleCap == 6

\* ------------------------------------------------------- program constants
\* media_service.py:353  max_frames = min(5, frame_count)
FrameCap == 5

JobIds == {"j1", "j2"}

\* Python None
None == "<None>"

\* ------------------------------------------------------------ text tokens
TEXT == "text"
MSG_IMG_EMPTY == "I couldn't analyze this image."
MSG_IMG_EXC == "I encountered an error analyzing the image"
MSG_SUM_EMPTY == "I couldn't generate a summary of the video content."
MSG_SUM_EXC == "I encountered an error while summarizing the video content."
MSG_TXT_BLOCKED == "I apologize, but I cannot provide a response"
MSG_TXT_NOTEXT == "I apologize, but I couldn't generate a proper response."
MSG_TXT_EXC == "I apologize, but I encountered an error"
MSG_NOT_OPEN == "Could not open the video file."
MSG_EMPTY_VIDEO == "This video appears to be empty or corrupted."
MSG_NO_FRAMES == "Could not analyze any frames from the video."
MSG_FRAMES_EXC == "An error occurred while processing your video"
MSG_NO_AUDIO == "Could not extract audio from the video."
MSG_NO_SPEECH == "The video's audio track doesn't contain any recognizable speech."
MSG_UNKNOWN_VALUE == "I couldn't understand what was said in the video."
MSG_REQUEST_ERROR == "There was an error with the speech recognition service."
MSG_AUDIO_DATA == "Error processing audio data"
MSG_NOT_FOUND == "Video file could not be found."
MSG_UNKNOWN_ERROR == "Unknown error"
\* str(e) of an exception that reaches the worker's handler
EXC_TEXT == "str(e)"

Min_TakesLarger(a, b) == IF a < b THEN b ELSE a

Min(a, b) == IF a < b THEN a ELSE b

\* ---------------------------------------------------------- GeminiService
\* outcome of one generate_content call: "ok" (text), "empty" (no text /
\* blocked), "exc" (the call raised)
analyze_image(o) ==
    IF o = "ok" THEN TEXT
    ELSE IF o = "empty" THEN MSG_IMG_EMPTY
    ELSE MSG_IMG_EXC

summarize_video_analysis(o) ==
    IF o = "ok" THEN TEXT
    ELSE IF o = "empty" THEN MSG_SUM_EMPTY
    ELSE MSG_SUM_EXC

generate_text_response(o) ==
    IF o = "ok" THEN TEXT
    ELSE IF o = "blocked" THEN MSG_TXT_BLOCKED
    ELSE IF o = "empty" THEN MSG_TXT_NOTEXT
    ELSE MSG_TXT_EXC

frame_indices_NoCap(frame_count) == [i \in 1..frame_count |-> i - 1]

\* ------------------------------------------------- process_video_frames
\* frame_indices = [int(i * frame_count / max_frames) for i in range(max_frames)]
frame_indices(frame_count) ==
    LET max_frames == Min(FrameCap, frame_count)
    IN  [i \in 1..max_frames |-> ((i - 1) * frame_count) \div max_frames]

\* int(num / den): the quotient truncated towards zero
int_of_quotient_Rounds(num, den) == (2 * num + den) \div (2 * den)

int_of_quotient(num, den) ==
    IF num >= 0 THEN num \div den ELSE -((-num) \div den)

extract_video_frames_indices_AlwaysMax(frame_count, max_frames) ==
    [i \in 1..max_frames |-> int_of_quotient((i - 1) * frame_count, max_frames)]

\* GeminiService._extract_video_frames: the indices it reads, for a video
\* of frame_count > 0 frames and a cap of max_frames
extract_video_frames_indices(frame_count, max_frames) ==
    IF frame_count <= max_frames
    THEN [i \in 1..frame_count |-> i - 1]
    ELSE [i \in 1..max_frames |->
             int_of_quotient((i - 1) * frame_count, max_frames)]

\* The loop over frame_indices from position i on.  fr[i] is what happens to
\* the i-th sampled frame: "noread" (cap.read fails), "raise" (converting or
\* saving the frame raises), otherwise the outcome of the inference call;
\* with fps = 0 the frame prompt raises ZeroDivisionError, which the loop
\* catches: the frame is skipped before any call is made.
\* acc = [results: analysis_results, calls: inference calls issued,
\*        ok: calls that produced a text, raised: loop left by an exception]
RECURSIVE frame_loop(_, _, _, _, _)
frame_loop(idx, fr, fps_ok, i, acc) ==
    IF i > Len(idx) THEN acc
    ELSE IF fr[i] = "noread" THEN frame_loop(idx, fr, fps_ok, i + 1, acc)
    ELSE IF fr[i] = "raise" THEN [acc EXCEPT !.raised = TRUE]
    ELSE IF ~fps_ok THEN frame_loop(idx, fr, fps_ok, i + 1, acc)
    ELSE frame_loop(idx, fr, fps_ok, i + 1,
            [acc EXCEPT !.results = Append(@, analyze_image(fr[i])),
                        !.calls = @ + 1,
                        !.ok = @ + (IF fr[i] = "ok" THEN 1 ELSE 0)])

\* v = [opened, frame_count, fps_ok, frames, summary]; the value is the
\* returned text together with what the call did: the inference calls
\* issued, how many of them produced a text, the summary call, and
\* analysis_results as the loop left it.
process_video_frames(v) ==
    LET none == [results |-> <<>>, calls |-> 0, ok |-> 0, raised |-> FALSE]
    IN
    IF ~v.opened
    THEN [ret |-> MSG_NOT_OPEN, calls |-> 0, ok |-> 0, summary |-> "none",
          results |-> <<>>]
    ELSE IF v.frame_count <= 0
    THEN [ret |-> MSG_EMPTY_VIDEO, calls |-> 0, ok |-> 0, summary |-> "none",
          results |-> <<>>]
    ELSE LET acc == frame_loop(frame_indices(v.frame_count), v.frames,
                               v.fps_ok, 1, none)
         IN  IF acc.raised
             THEN [ret |-> MSG_FRAMES_EXC, calls |-> acc.calls, ok |-> acc.ok,
                   summary |-> "none", results |-> acc.results]
             ELSE IF acc.results # <<>>
             THEN [ret |-> summarize_video_analysis(v.summary),
                   calls |-> acc.calls, ok |-> acc.ok, summary |-> v.summary,
                   results |-> acc.results]
             ELSE [ret |-> MSG_NO_FRAMES, calls |-> acc.calls, ok |-> acc.ok,
                   summary |-> "none", results |-> acc.results]

\* ------------------------------------------------------- Python dicts
\* a dict is a function whose DOMAIN is the set of keys present
Put(d, k, val) == [x \in (DOMAIN d) \cup {k} |-> IF x = k THEN val ELSE d[x]]
Has(d, k) == k \in DOMAIN d
Get(d, k, default) == IF k \in DOMAIN d THEN d[k] ELSE default
\* truth value of a text-or-None
Truthy(x) == x # None /\ x # ""

\* --------------------------------------------- extract_audio_from_video
\* a.primary: what MoviePy does: "ok" (non-empty file written), "no_stream"
\* (video_clip.audio is None), "empty" (file missing or empty), "write_raise"
\* (write_audiofile raised), "load_raise" (VideoFileClip raised).
\* a.ffmpeg: what the ffmpeg subprocess does: "ok", "empty" (exit code 0 but
\* file missing or empty), "nonzero" (exit code /= 0), "raise".
AUDIO_PATH == "video_audio.wav"

extract_audio_from_video_PrimaryOnly(a) ==
    IF a.primary = "ok"
    THEN [ret |-> AUDIO_PATH, strategies |-> <<"moviepy">>]
    ELSE [ret |-> None, strategies |-> <<"moviepy">>]

extract_audio_from_video(a) ==
    IF a.primary = "ok"
    THEN [ret |-> AUDIO_PATH, strategies |-> <<"moviepy">>]
    ELSE IF a.ffmpeg = "ok"
    THEN [ret |-> AUDIO_PATH, strategies |-> <<"moviepy", "ffmpeg">>]
    ELSE [ret |-> None, strategies |-> <<"moviepy", "ffmpeg">>]

\* utils.convert_audio_to_wav: a path that already ends in .wav is returned
\* as it is; otherwise the converted path, or the original path when the
\* conversion raised.
IsWav(path) == path = AUDIO_PATH
\* the coroutine object a call of a coroutine function evaluates to
COROUTINE == "<coroutine object>"
convert_audio_to_wav(path, o) ==
    IF IsWav(path) THEN path
    ELSE IF o = "ok" THEN "converted.wav"
    ELSE path

\* ---------------------------------------------------- process_video_audio
\* a.recog: "text" (recognize_google returned a transcript), "blank" (it
\* returned an empty or whitespace-only transcript), "unknown"
\* (sr.UnknownValueError), "request_error" (sr.RequestError), "error" (any
\* other exception while reading or recognising the audio).
\* a.text: outcome of the generate_text_response call on the transcript.
\* a.convert: what wav_path = convert_audio_to_wav(audio_path) is bound to
\* (media_service.py:221): "coroutine", the coroutine object of the call,
\* which is not awaited (sr.AudioFile rejects it, media_service.py:232 and
\* 303-305); "ok" / "fail", the value of the function's body, the reading
\* under which the steps behind the conversion are modelled.
\* The value: ret is the returned dict or message; tmp_audio tells whether
\* the extracted audio file is still on disk when the function returns;
\* wav_path is what the recogniser was given to open.
process_video_audio(a) ==
    LET x == extract_audio_from_video(a)
        audio_path == x.ret
        wav_path == IF a.convert = "coroutine" THEN COROUTINE
                    ELSE convert_audio_to_wav(audio_path, a.convert)
    IN
    IF audio_path = None
    THEN [ret |-> MSG_NO_AUDIO, isdict |-> FALSE, tmp_audio |-> FALSE,
          strategies |-> x.strategies, wav_path |-> None]
    ELSE IF wav_path = COROUTINE
    THEN [ret |-> MSG_AUDIO_DATA, isdict |-> FALSE, tmp_audio |-> TRUE,
          strategies |-> x.strategies, wav_path |-> wav_path]
    ELSE IF a.recog = "text"
    THEN [ret |-> [transcript |-> TEXT,
                   analysis |-> generate_text_response(a.text)],
          isdict |-> TRUE, tmp_audio |-> FALSE, strategies |-> x.strategies,
          wav_path |-> wav_path]
    ELSE [ret |-> IF a.recog = "blank" THEN MSG_NO_SPEECH
                  ELSE IF a.recog = "unknown" THEN MSG_UNKNOWN_VALUE
                  ELSE IF a.recog = "request_error" THEN MSG_REQUEST_ERROR
                  ELSE MSG_AUDIO_DATA,
          isdict |-> FALSE, tmp_audio |-> TRUE, strategies |-> x.strategies,
          wav_path |-> wav_path]

\* --------------------------------------------- process_comprehensive_video
\* e = [exists, video, audio, combine]: whether the file is on disk, the
\* environment of the frame path, of the audio path, and the outcome of the
\* combination call.  The value: ret is the returned dict; frames_runs,
\* audio_runs and combine_calls count the calls the function made; visual
\* and audio are what the two paths did (NoRun when a path was not run).
NoFrames == [ret |-> None, calls |-> 0, ok |-> 0, summary |-> "none",
             results |-> <<>>]
NoAudio == [ret |-> None, isdict |-> FALSE, tmp_audio |-> FALSE,
            strategies |-> <<>>, wav_path |-> None]

RunsFrames(processing_type) ==
    processing_type = "frames" \/ processing_type = "auto"
RunsAudio(processing_type) ==
    processing_type = "audio" \/ processing_type = "auto"

process_comprehensive_video_HasAudioOnRun(e, processing_type) ==
    LET result0 == [visual_analysis |-> None, has_audio |-> FALSE,
                    audio_transcript |-> None, audio_analysis |-> None]
        fx == IF RunsFrames(processing_type)
              THEN process_video_frames(e.video) ELSE NoFrames
        result1 == IF RunsFrames(processing_type)
                   THEN [result0 EXCEPT !.visual_analysis = fx.ret]
                   ELSE result0
        ax == IF RunsAudio(processing_type)
              THEN process_video_audio(e.audio) ELSE NoAudio
        result2 == IF ~RunsAudio(processing_type) THEN result1
                   ELSE IF ax.isdict
                   THEN [result1 EXCEPT !.has_audio = TRUE,
                                        !.audio_transcript = ax.ret.transcript,
                                        !.audio_analysis = ax.ret.analysis]
                   ELSE Put([result1 EXCEPT !.has_audio = TRUE],
                            "audio_error", ax.ret)
        combines == Truthy(result2.visual_analysis)
                    /\ Truthy(result2.audio_analysis)
                    /\ processing_type = "auto"
        result3 == IF combines
                   THEN Put(result2, "combined_analysis",
                            generate_text_response(e.combine))
                   ELSE result2
    IN
    IF ~e.exists
    THEN [ret |-> [error |-> MSG_NOT_FOUND], frames_runs |-> 0,
          audio_runs |-> 0, combine_calls |-> 0,
          visual |-> NoFrames, audio |-> NoAudio]
    ELSE [ret |-> result3,
          frames_runs |-> IF RunsFrames(processing_type) THEN 1 ELSE 0,
          audio_runs |-> IF RunsAudio(processing_type) THEN 1 ELSE 0,
          combine_calls |-> IF combines THEN 1 ELSE 0,
          visual |-> fx, audio |-> ax]

process_comprehensive_video(e, processing_type) ==
    LET result0 == [visual_analysis |-> None, has_audio |-> FALSE,
                    audio_transcript |-> None, audio_analysis |-> None]
        fx == IF RunsFrames(processing_type)
              THEN process_video_frames(e.video) ELSE NoFrames
        result1 == IF RunsFrames(processing_type)
                   THEN [result0 EXCEPT !.visual_analysis = fx.ret]
                   ELSE result0
        ax == IF RunsAudio(processing_type)
              THEN process_video_audio(e.audio) ELSE NoAudio
        result2 == IF ~RunsAudio(processing_type) THEN result1
                   ELSE IF ax.isdict
                   THEN [result1 EXCEPT !.has_audio = TRUE,
                                        !.audio_transcript = ax.ret.transcript,
                                        !.audio_analysis = ax.ret.analysis]
                   ELSE Put([result1 EXCEPT !.has_audio = FALSE],
                            "audio_error", ax.ret)
        combines == Truthy(result2.visual_analysis)
                    /\ Truthy(result2.audio_analysis)
                    /\ processing_type = "auto"
        result3 == IF combines
                   THEN Put(result2, "combined_analysis",
                            generate_text_response(e.combine))
                   ELSE result2
    IN
    IF ~e.exists
    THEN [ret |-> [error |-> MSG_NOT_FOUND], frames_runs |-> 0,
          audio_runs |-> 0, combine_calls |-> 0,
          visual |-> NoFrames, audio |-> NoAudio]
    ELSE [ret |-> result3,
          frames_runs |-> IF RunsFrames(processing_type) THEN 1 ELSE 0,
          audio_runs |-> IF RunsAudio(processing_type) THEN 1 ELSE 0,
          combine_calls |-> IF combines THEN 1 ELSE 0,
          visual |-> fx, audio |-> ax]

\* ------------------------------------------------------------------ state
\* processing_jobs: routes.py:25, the registry: job id -> job dict
\* threads: the background threads started so far, in order of their start
\* response: the HTTP response of the last request handled
\* call: the arguments of a call of one of the pipeline's functions taken
\* alone (the frame sampler, the audio extractor) and, once it returned,
\* its value
VARIABLES processing_jobs, threads, response, call

vars == <<processing_jobs, threads, response, call>>

FILE_PATH == "uploads/video.mp4"

\* What a worker's pipeline call did and met: the calls it made, the values
\* of the two paths, whether the file was on disk and whether the audio of
\* the video can be extracted and transcribed at all.
NoRun == [frames_runs |-> 0, audio_runs |-> 0, combine_calls |-> 0,
          visual |-> NoFrames, audio |-> NoAudio, exists |-> TRUE,
          audio_usable |-> FALSE]

Init ==
    /\ processing_jobs = <<>>
    /\ threads = <<>>
    /\ response = [op |-> "none"]
    /\ call = [op |-> "none"]

SetField_AllJobs(jobs, job_id, key, val) ==
    [j \in DOMAIN jobs |-> Put(jobs[j], key, val)]

\* processing_jobs[job_id][key] = val
SetField(jobs, job_id, key, val) ==
    [jobs EXCEPT ![job_id] = Put(@, key, val)]

StartThread_Joined(job_id, processing_type) ==
    Append(threads, [job_id |-> job_id, processing_type |-> processing_type,
                     pc |-> "done", result |-> None, run |-> NoRun,
                     raised |-> FALSE])

\* threading.Thread(target=process_video_in_background, args=...).start()
StartThread(job_id, processing_type) ==
    Append(threads, [job_id |-> job_id, processing_type |-> processing_type,
                     pc |-> "start", result |-> None, run |-> NoRun,
                     raised |-> FALSE])

\* The job entry both upload handlers store; created_at is the ordinal of
\* the submission (a logical clock for time.time()).
NewJob(type) ==
    [status |-> "queued", type |-> type, file_path |-> FILE_PATH,
     created_at |-> Len(threads) + 1, progress |-> 0]

\* POST /upload/video/comprehensive with request_id and processing_type
handle_comprehensive_video(request_id, processing_type, limit) ==
    /\ Len(threads) < limit
    /\ processing_jobs' = Put(processing_jobs, request_id, NewJob("comprehensive"))
    /\ threads' = StartThread(request_id, processing_type)
    /\ response' = [op |-> "submit", job_id |-> request_id, code |-> 202,
                    body |-> [status |-> "processing", job_id |-> request_id]]
    /\ UNCHANGED call

\* POST /upload/video/audio with request_id
handle_video_audio(request_id, limit) ==
    /\ Len(threads) < limit
    /\ processing_jobs' = Put(processing_jobs, request_id, NewJob("audio"))
    /\ threads' = StartThread(request_id, "audio")
    /\ response' = [op |-> "submit", job_id |-> request_id, code |-> 202,
                    body |-> [status |-> "processing", job_id |-> request_id]]
    /\ UNCHANGED call

\* -------------------------------------------- process_video_in_background
\* routes.py:43
WorkerStart(t) ==
    /\ threads[t].pc = "start"
    /\ processing_jobs' = SetField(processing_jobs, threads[t].job_id,
                                   "status", "processing")
    /\ threads' = [threads EXCEPT ![t].pc = "run"]
    /\ UNCHANGED <<response, call>>

\* routes.py:46  result = process_video_audio(...)
WorkerRunAudio(t, AudioEnvs) ==
    /\ threads[t].pc = "run"
    /\ threads[t].processing_type = "audio"
    /\ \E a \in AudioEnvs :
         LET x == process_video_audio(a)
         IN  threads' = [threads EXCEPT
                 ![t].pc = "set_status",
                 ![t].result = x.ret,
                 ![t].run = [NoRun EXCEPT !.audio_runs = 1, !.audio = x,
                                          !.audio_usable = x.isdict]]
    /\ UNCHANGED <<processing_jobs, response, call>>

\* routes.py:57  result = process_comprehensive_video(...)
WorkerRunComprehensive(t, Envs) ==
    /\ threads[t].pc = "run"
    /\ threads[t].processing_type \in {"auto", "comprehensive"}
    /\ \E e \in Envs :
         LET x == process_comprehensive_video(e, threads[t].processing_type)
         IN  threads' = [threads EXCEPT
                 ![t].pc = "set_status",
                 ![t].result = x.ret,
                 ![t].run = [frames_runs |-> x.frames_runs,
                             audio_runs |-> x.audio_runs,
                             combine_calls |-> x.combine_calls,
                             visual |-> x.visual, audio |-> x.audio,
                             exists |-> e.exists,
                             audio_usable |->
                                 process_video_audio(e.audio).isdict]]
    /\ UNCHANGED <<processing_jobs, response, call>>

\* routes.py:66  result = process_video_frames(...)
WorkerRunFrames(t, VideoEnvs) ==
    /\ threads[t].pc = "run"
    /\ threads[t].processing_type \notin {"audio", "auto", "comprehensive"}
    /\ \E v \in VideoEnvs :
         LET x == process_video_frames(v)
         IN  threads' = [threads EXCEPT
                 ![t].pc = "set_status",
                 ![t].result = x.ret,
                 ![t].run = [NoRun EXCEPT !.frames_runs = 1, !.visual = x]]
    /\ UNCHANGED <<processing_jobs, response, call>>

\* The status the worker stores for the value its pipeline returned
\* (routes.py:47-51, 58-62, 67).
StatusFor(processing_type, run, result) ==
    IF processing_type = "audio"
    THEN IF ~run.audio.isdict THEN "failed" ELSE "completed"
    ELSE IF processing_type \in {"auto", "comprehensive"}
    THEN IF Has(result, "error") THEN "failed" ELSE "completed"
    ELSE "completed"

WorkerSetStatus_FailsOnCombination(t) ==
    /\ threads[t].pc = "set_status"
    /\ processing_jobs' = SetField(processing_jobs, threads[t].job_id, "status",
            IF /\ threads[t].processing_type \in {"auto", "comprehensive"}
               /\ Get(threads[t].result, "combined_analysis", TEXT) # TEXT
            THEN "failed"
            ELSE StatusFor(threads[t].processing_type, threads[t].run,
                           threads[t].result))
    /\ threads' = [threads EXCEPT ![t].pc = "set_payload"]
    /\ UNCHANGED <<response, call>>

\* routes.py:48, 51, 59, 62, 67  processing_jobs[job_id]['status'] = ...
WorkerSetStatus(t) ==
    /\ threads[t].pc = "set_status"
    /\ processing_jobs' = SetField(processing_jobs, threads[t].job_id, "status",
            StatusFor(threads[t].processing_type, threads[t].run,
                      threads[t].result))
    /\ threads' = [threads EXCEPT ![t].pc = "set_payload"]
    /\ UNCHANGED <<response, call>>

\* routes.py:49, 52-55, 60, 63, 68  the error or the result is stored
WorkerSetPayload(t) ==
    LET th == threads[t]
        failed == StatusFor(th.processing_type, th.run, th.result) = "failed"
        payload ==
            IF th.processing_type = "audio"
            THEN IF failed THEN th.result
                 ELSE [transcript |-> Get(th.result, "transcript", ""),
                       analysis |-> Get(th.result, "analysis", "")]
            ELSE IF th.processing_type \in {"auto", "comprehensive"}
            THEN IF failed THEN th.result.error ELSE th.result
            ELSE [visual_analysis |-> th.result]
    IN
    /\ th.pc = "set_payload"
    /\ processing_jobs' = SetField(processing_jobs, th.job_id,
                                   IF failed THEN "error" ELSE "result", payload)
    /\ threads' = [threads EXCEPT ![t].pc = "done"]
    /\ UNCHANGED <<response, call>>

\* routes.py:71-73  the pipeline call raised an Exception (none of the
\* registry writes of the try block can raise: the entry exists): the
\* handler is entered and stores the status
WorkerExceptStatus(t) ==
    /\ threads[t].pc = "run"
    /\ processing_jobs' = SetField(processing_jobs, threads[t].job_id,
                                   "status", "failed")
    /\ threads' = [threads EXCEPT ![t].pc = "except_error", ![t].raised = TRUE]
    /\ UNCHANGED <<response, call>>

\* routes.py:74  processing_jobs[job_id]['error'] = str(e); the thread ends
WorkerExceptError(t) ==
    /\ threads[t].pc = "except_error"
    /\ processing_jobs' = SetField(processing_jobs, threads[t].job_id,
                                   "error", EXC_TEXT)
    /\ threads' = [threads EXCEPT ![t].pc = "done"]
    /\ UNCHANGED <<response, call>>

\* media_service.py:180, 251, 278, 390  an external call of the pipeline
\* (the ffmpeg subprocess, recognize_google, generate_content) that never
\* answers: none is given a timeout, so the thread waits in it for ever
WorkerCallBlocks(t) ==
    /\ threads[t].pc = "run"
    /\ threads' = [threads EXCEPT ![t].pc = "blocked"]
    /\ UNCHANGED <<processing_jobs, response, call>>

\* ------------------------------------------------------- check_job_status
\* check_job_status without the membership test: an id that is not in the
\* registry is answered like a job that failed without an error.
JobView_NoMembershipTest(jobs, job_id) ==
    LET job == IF Has(jobs, job_id) THEN jobs[job_id] ELSE [status |-> "failed"]
    IN  IF job.status = "completed"
        THEN IF Has(job, "result")
             THEN [code |-> 200,
                   body |-> [k \in {"status"} \cup DOMAIN job.result |->
                               IF k \in DOMAIN job.result
                               THEN job.result[k] ELSE "completed"]]
             ELSE [code |-> 500,
                   body |-> [error |-> "An error occurred while checking job status."]]
        ELSE IF job.status = "failed"
        THEN [code |-> 200,
              body |-> [status |-> "failed",
                        error |-> Get(job, "error", MSG_UNKNOWN_ERROR)]]
        ELSE [code |-> 200,
              body |-> [status |-> "processing",
                        progress |-> Get(job, "progress", 0)]]

\* GET /job_status/<job_id>: the status code and the JSON body
JobView(jobs, job_id) ==
    IF ~Has(jobs, job_id)
    THEN [code |-> 404, body |-> [status |-> "not_found",
                                  error |-> "Job not found"]]
    ELSE LET job == jobs[job_id]
         IN  IF job.status = "completed"
             THEN IF Has(job, "result")
                  THEN [code |-> 200,
                        body |-> [k \in {"status"} \cup DOMAIN job.result |->
                                    IF k \in DOMAIN job.result
                                    THEN job.result[k] ELSE "completed"]]
                  ELSE [code |-> 500,
                        body |-> [error |-> "An error occurred while checking job status."]]
             ELSE IF job.status = "failed"
             THEN [code |-> 200,
                   body |-> [status |-> "failed",
                             error |-> Get(job, "error", MSG_UNKNOWN_ERROR)]]
             ELSE [code |-> 200,
                   body |-> [status |-> "processing",
                             progress |-> Get(job, "progress", 0)]]

check_job_status(job_id) ==
    /\ response' = [op |-> "poll", job_id |-> job_id,
                    code |-> JobView(processing_jobs, job_id).code,
                    body |-> JobView(processing_jobs, job_id).body]
    /\ UNCHANGED <<processing_jobs, threads, call>>

\* ------------------------------------------------------------ environments
\* The environments of the frame path for frame counts up to n, with the
\* per-frame outcomes O and the summary outcomes S.
VideoEnvsOf(n, O, S) ==
    {[opened |-> FALSE, frame_count |-> 0, fps_ok |-> TRUE, frames |-> <<>>,
      summary |-> "ok"],
     [opened |-> TRUE, frame_count |-> 0, fps_ok |-> TRUE, frames |-> <<>>,
      summary |-> "ok"]}
    \cup UNION {[opened : {TRUE}, frame_count : {fc}, fps_ok : BOOLEAN,
                 frames : [1..Min(FrameCap, fc) -> O], summary : S]
                : fc \in 1..n}

AudioEnvsOf(P, F, R, T) ==
    [primary : P, ffmpeg : F, convert : {"ok"}, recog : R, text : T]

\* several jobs at once: one or two environments per path (a video that
\* opens and is analysed; an audio track that is extracted and transcribed
\* or is missing; a file that is on disk or not)
SmallVideoEnvs == {v \in VideoEnvsOf(1, {"ok"}, {"ok"}) :
                      v.fps_ok /\ v.opened /\ v.frame_count > 0}
SmallAudioEnvs == AudioEnvsOf({"ok"}, {"nonzero"}, {"text"}, {"ok"})
SmallEnvs == [exists : BOOLEAN, video : SmallVideoEnvs,
              audio : SmallAudioEnvs,
              combine : {"ok"}]

\* one job: every way the two paths can end
PipeVideoEnvs == VideoEnvsOf(MaxFrameCount, {"ok", "exc", "noread"}, {"ok", "exc"})
PipeAudioEnvs ==
    {[a EXCEPT !.convert = c] :
        a \in AudioEnvsOf({"ok", "no_stream", "write_raise"}, {"ok", "nonzero"},
                          {"text", "blank", "unknown", "request_error", "error"},
                          {"ok", "exc"}),
        c \in {"ok", "coroutine"}}
PipeEnvs == [exists : BOOLEAN, video : PipeVideoEnvs, audio : PipeAudioEnvs,
             combine : {"ok", "exc"}]

\* the processing_type values a client sends
ProcessingTypes == {"auto", "comprehensive", "frames", "audio"}

\* ------------------------------------------------------------- behaviours
\* Any number of clients and jobs: submissions, workers and polls interleave
\* (the two endpoints, each with its default processing type).
Submit ==
    \/ \E id \in JobIds : handle_comprehensive_video(id, "auto", MaxThreads)
    \/ \E id \in JobIds : handle_video_audio(id, MaxThreads)

Worker ==
    \E t \in 1..Len(threads) :
        \/ WorkerStart(t)
        \/ WorkerRunAudio(t, SmallAudioEnvs)
        \/ WorkerRunComprehensive(t, SmallEnvs)
        \/ WorkerSetStatus(t)
        \/ WorkerSetPayload(t)
        \/ WorkerExceptStatus(t)
        \/ WorkerExceptError(t)

Poll == \E id \in JobIds : check_job_status(id)

Next == Submit \/ Worker \/ Poll

Spec == Init /\ [][Next]_vars

\* One submission, followed through every environment of its pipeline.
PipeSubmit ==
    \/ \E ty \in ProcessingTypes : handle_comprehensive_video("j1", ty, 1)
    \/ handle_video_audio("j1", 1)

PipeWorker ==
    \E t \in 1..Len(threads) :
        \/ WorkerStart(t)
        \/ WorkerRunAudio(t, PipeAudioEnvs)
        \/ WorkerRunComprehensive(t, PipeEnvs)
        \/ WorkerRunFrames(t, PipeVideoEnvs)
        \/ WorkerSetStatus(t)
        \/ WorkerSetPayload(t)
        \/ WorkerExceptStatus(t)
        \/ WorkerExceptError(t)

PipeNext == PipeSubmit \/ PipeWorker \/ Poll

PipelineSpec == Init /\ [][PipeNext]_vars

\* One submission whose worker thread is scheduled fairly (a started daemon
\* thread keeps being run by the interpreter) and whose external calls may
\* fail to answer.
LiveWorkerOf(t) ==
    \/ WorkerStart(t)
    \/ WorkerRunAudio(t, PipeAudioEnvs)
    \/ WorkerRunComprehensive(t, PipeEnvs)
    \/ WorkerRunFrames(t, PipeVideoEnvs)
    \/ WorkerSetStatus(t)
    \/ WorkerSetPayload(t)
    \/ WorkerExceptStatus(t)
    \/ WorkerExceptError(t)
    \/ WorkerCallBlocks(t)

LiveWorker == \E t \in 1..Len(threads) : LiveWorkerOf(t)

LiveNext == PipeSubmit \/ LiveWorker \/ Poll

\* the position of every worker: each step of a worker changes its own
pcs == [t \in 1..Len(threads) |-> threads[t].pc]

LiveSpec == Init /\ [][LiveNext]_vars /\ WF_pcs(LiveWorker)

\* The frame sampler and the audio extractor called on their own, with
\* every argument of the bounded ranges.
SamplerInputs ==
    [op : {"sample"}, frame_count : 1..MaxSampleFrames,
     max_frames : 1..MaxSampleCap]

ExtractorInputs ==
    [op : {"extract"},
     primary : {"ok", "no_stream", "empty", "write_raise", "load_raise"},
     ffmpeg : {"ok", "empty", "nonzero", "raise"}]

CallInit ==
    /\ processing_jobs = <<>>
    /\ threads = <<>>
    /\ response = [op |-> "none"]
    /\ call \in SamplerInputs \cup ExtractorInputs

\* gemini_service.py:366-372 with the caller's max_frames
SampleGemini ==
    /\ call.op = "sample"
    /\ call' = [op |-> "sampled", impl |-> "gemini_service",
                frame_count |-> call.frame_count,
                max_frames |-> call.max_frames,
                frame_indices |-> extract_video_frames_indices(
                                     call.frame_count, call.max_frames)]
    /\ UNCHANGED <<processing_jobs, threads, response>>

\* media_service.py:352-354, whose cap is the constant 5
SampleMedia ==
    /\ call.op = "sample"
    /\ call.max_frames = FrameCap
    /\ call' = [op |-> "sampled", impl |-> "media_service",
                frame_count |-> call.frame_count,
                max_frames |-> call.max_frames,
                frame_indices |-> frame_indices(call.frame_count)]
    /\ UNCHANGED <<processing_jobs, threads, response>>

ExtractAudio ==
    /\ call.op = "extract"
    /\ call' = [op |-> "extracted", primary |-> call.primary,
                ffmpeg |-> call.ffmpeg,
                ret |-> extract_audio_from_video(call).ret,
                strategies |-> extract_audio_from_video(call).strategies]
    /\ UNCHANGED <<processing_jobs, threads, response>>

CallNext == SampleGemini \/ SampleMedia \/ ExtractAudio

CallSpec == CallInit /\ [][CallNext]_vars

\* ================================================================ claims
Terminal == {"completed", "failed"}
Started == {threads[t].job_id : t \in 1..Len(threads)}
Comprehensive == {"auto", "comprehensive"}
\* the worker t has left its pipeline call
Ran(t) == threads[t].pc \in {"set_status", "set_payload", "done"}
\* the frame path produced an analysis: some inference call gave a text and
\* the path went on to the summary
VisualSucceeded(run) ==
    run.frames_runs = 1 /\ run.visual.ok >= 1 /\ run.visual.summary # "none"
\* the audio path returned the transcript/analysis pair
AudioSucceeded(run) == run.audio_runs = 1 /\ run.audio.isdict

\* C1: the status of a job only moves queued -> processing -> completed or
\* failed: a terminal status is stored only over "processing", and a
\* terminal status never changes again.
C1_StatusMonotonic ==
    [][\A id \in DOMAIN processing_jobs :
          LET old == processing_jobs[id].status
              new == processing_jobs'[id].status
          IN  /\ old \in Terminal => new = old
              /\ new # old => <<old, new>> \in
                     {<<"queued", "processing">>, <<"processing", "completed">>,
                      <<"processing", "failed">>}]_vars

\* C2: a submission is accepted (an entry is written, a worker is started)
\* only for a job id that is not in the registry; the entry it creates is
\* queued, and the entries already present are left as they are.
C2_DuplicateRejected ==
    [][Len(threads') > Len(threads) =>
          LET id == threads'[Len(threads')].job_id
          IN  /\ id \notin DOMAIN processing_jobs
              /\ processing_jobs'[id].status = "queued"
              /\ \A j \in DOMAIN processing_jobs :
                    processing_jobs'[j] = processing_jobs[j]]_vars

\* C3: at most one worker is ever started per job id.
C3_OneWorkerPerJob ==
    \A t1, t2 \in 1..Len(threads) :
        threads[t1].job_id = threads[t2].job_id => t1 = t2

\* C4: a poll of a known job id never ends in an internal error and returns
\* the view of the stored status: progress while queued or processing, the
\* result fields when completed, the error the worker recorded when failed.
C4_PollWellFormed ==
    (response.op = "poll" /\ response.code # 404) =>
        /\ response.code = 200
        /\ response.body.status = "processing" => Has(response.body, "progress")
        /\ response.body.status = "completed" =>
              DOMAIN response.body # {"status"}
        /\ response.body.status = "failed" =>
              /\ Has(response.body, "error")
              /\ response.body.error # MSG_UNKNOWN_ERROR

\* C5: a poll changes nothing in the registry and starts nothing; it
\* answers not_found (404) exactly when the polled id was never submitted,
\* so an unknown id is never shown as a failed job and a submitted id is
\* never reported as not found.
C5_UnknownIdNotFound ==
    [][(response' # response /\ response'.op = "poll") =>
          /\ processing_jobs' = processing_jobs
          /\ threads' = threads
          /\ response'.code = 404 <=> response'.job_id \notin Started
          /\ response'.code = 404 => response'.body.status = "not_found"
          /\ response'.job_id \notin Started =>
                response'.body.status # "failed"]_vars

\* C5 witness: an id that was never submitted is polled while another job
\* is in the registry, and the answer is not_found.
C5_Witness ==
    /\ response.op = "poll"
    /\ response.code = 404
    /\ response.job_id \notin DOMAIN processing_jobs
    /\ processing_jobs # <<>>

\* C6: a job submitted with processing_type "auto" or "comprehensive" (the
\* file being on disk) has run the frame path and the audio path once each
\* when its pipeline call returns.
C6_BothPathsRun ==
    \A t \in 1..Len(threads) :
        (Ran(t) /\ threads[t].processing_type \in Comprehensive
                /\ threads[t].run.exists) =>
            /\ threads[t].run.frames_runs = 1
            /\ threads[t].run.audio_runs = 1

C8_AudioFailureDegrades ==
    \A t \in 1..Len(threads) :
        LET th == threads[t]
            job == processing_jobs[th.job_id]
        IN  (th.pc = "done" /\ th.processing_type \in Comprehensive
                 /\ th.run.exists /\ ~th.run.audio_usable) =>
              /\ th.run.frames_runs = 1
              /\ job.status = "completed"
              /\ Has(job, "result")
              /\ job.result.visual_analysis # None
              /\ job.result.has_audio = FALSE
              /\ Has(job.result, "audio_error")

\* C9: an "auto"/"comprehensive" job in which the frame path and the audio
\* path both failed ends failed, with an error.
C9_BothFailFails ==
    \A t \in 1..Len(threads) :
        LET th == threads[t]
            job == processing_jobs[th.job_id]
        IN  (th.pc = "done" /\ th.processing_type \in Comprehensive
                 /\ th.run.frames_runs = 1 /\ th.run.audio_runs = 1
                 /\ ~VisualSucceeded(th.run) /\ ~AudioSucceeded(th.run)) =>
              /\ job.status = "failed"
              /\ Has(job, "error")

\* C10: a frames job all of whose inference calls failed ends failed with
\* the no-usable-frames error, never completed with a visual_analysis.
C10_NoUsableFramesFails ==
    \A t \in 1..Len(threads) :
        LET th == threads[t]
            job == processing_jobs[th.job_id]
        IN  (th.pc = "done" /\ th.processing_type = "frames"
                 /\ th.run.visual.calls >= 1 /\ th.run.visual.ok = 0) =>
              /\ job.status = "failed"
              /\ Get(job, "error", None) = MSG_NO_FRAMES
              /\ ~Has(job, "result")

\* C11: when a worker's pipeline call raises, the worker catches the
\* exception and ends normally, leaving its job Failed with the exception's
\* text as the error detail.
C11_ExceptionFailsJob ==
    \A t \in 1..Len(threads) :
        (threads[t].raised /\ threads[t].pc = "done") =>
            /\ Has(processing_jobs, threads[t].job_id)
            /\ processing_jobs[threads[t].job_id].status = "failed"
            /\ Get(processing_jobs[threads[t].job_id], "error", None) = EXC_TEXT
            /\ ~Has(processing_jobs[threads[t].job_id], "result")

\* C12: once a job's status is Completed or Failed, no temporary audio file
\* extracted for it is left on disk (the temporary frame images are removed
\* inside the frame loop, right after they are read back).
C12_TempFilesDeleted ==
    \A t \in 1..Len(threads) :
        (/\ Has(processing_jobs, threads[t].job_id)
         /\ processing_jobs[threads[t].job_id].status \in Terminal) =>
            ~threads[t].run.audio.tmp_audio

\* C13: a submission returns its 202 response in the step that writes the
\* queued entry and starts the worker: the worker it started has run no
\* step of the pipeline when the response exists, and no other worker was
\* waited for or advanced.
C13_SubmitDoesNotWait ==
    [][Len(threads') > Len(threads) =>
          LET n == Len(threads')
              id == threads'[n].job_id
          IN  /\ n = Len(threads) + 1
              /\ SubSeq(threads', 1, Len(threads)) = threads
              /\ threads'[n].pc = "start"
              /\ threads'[n].run = NoRun
              /\ processing_jobs'[id].status = "queued"
              /\ response'.op = "submit"
              /\ response'.code = 202
              /\ response'.job_id = id]_vars

\* a submission has returned while its worker has not started, and another
\* worker is in the middle of its job
C13_Witness ==
    /\ response.op = "submit"
    /\ \E t \in 1..Len(threads) :
          /\ threads[t].job_id = response.job_id
          /\ threads[t].pc = "start"
    /\ \E u \in 1..Len(threads) : threads[u].pc \in {"run", "set_status", "set_payload"}

\* C14: every submitted job reaches Completed or Failed when its worker is
\* scheduled fairly, also when an external call does not answer: a worker
\* that has not ended can always take its next step (no call keeps it
\* waiting for ever), and a worker that has ended left a terminal status.
C14_EventuallyTerminal ==
    \A t \in 1..Len(threads) :
        /\ threads[t].pc # "done" => ENABLED LiveWorkerOf(t)
        /\ threads[t].pc = "done" =>
              processing_jobs[threads[t].job_id].status \in Terminal

\* C15: once a job's status is Completed or Failed its registry record is
\* never written again.
C15_TerminalRecordFrozen ==
    [][\A id \in DOMAIN processing_jobs :
          processing_jobs[id].status \in Terminal =>
              /\ id \in DOMAIN processing_jobs'
              /\ DOMAIN processing_jobs'[id] = DOMAIN processing_jobs[id]
              /\ processing_jobs'[id] = processing_jobs[id]]_vars

\* C16: in every registry state a record has an error detail only if its
\* status is Failed and a result payload only if its status is Completed.
C16_PayloadMatchesStatus ==
    \A id \in DOMAIN processing_jobs :
        /\ Has(processing_jobs[id], "error") =>
              processing_jobs[id].status = "failed"
        /\ Has(processing_jobs[id], "result") =>
              processing_jobs[id].status = "completed"

\* C17: for 1 <= frameCount <= maxFrames the sampler selects exactly the
\* indices 0 .. frameCount-1, in increasing order.
C17_AllFramesWhenFew ==
    (call.op = "sampled" /\ call.frame_count <= call.max_frames) =>
        /\ Len(call.frame_indices) = call.frame_count
        /\ \A i \in 1..call.frame_count : call.frame_indices[i] = i - 1

C17_Witness ==
    /\ call.op = "sampled"
    /\ call.frame_count <= call.max_frames
    /\ call.frame_count >= 2

\* C18: for frameCount > maxFrames >= 1 the sampled list has exactly
\* maxFrames entries, is strictly increasing and starts at 0.
C18_CappedIncreasing ==
    (call.op = "sampled" /\ call.frame_count > call.max_frames) =>
        /\ Len(call.frame_indices) = call.max_frames
        /\ call.frame_indices[1] = 0
        /\ \A i \in 1..(call.max_frames - 1) :
              call.frame_indices[i] < call.frame_indices[i + 1]

C18_Witness ==
    /\ call.op = "sampled"
    /\ call.frame_count > call.max_frames
    /\ call.max_frames >= 2

\* C19: for frameCount > maxFrames the i-th sampled index (i from 0) is
\* floor(i * frameCount / maxFrames); 10 frames with a cap of 5 give
\* 0, 2, 4, 6, 8.
C19_FloorFormula ==
    (call.op = "sampled" /\ call.frame_count > call.max_frames) =>
        /\ \A i \in 1..Len(call.frame_indices) :
              /\ call.frame_indices[i] * call.max_frames
                    <= (i - 1) * call.frame_count
              /\ (i - 1) * call.frame_count
                    < (call.frame_indices[i] + 1) * call.max_frames
        /\ (call.frame_count = 10 /\ call.max_frames = 5) =>
              call.frame_indices = <<0, 2, 4, 6, 8>>

C19_Witness ==
    /\ call.op = "sampled"
    /\ call.frame_count = 10
    /\ call.max_frames = 5
    /\ Len(call.frame_indices) = 5

\* C20: the extractor tries MoviePy first and runs the ffmpeg fallback
\* exactly when MoviePy left no non-empty file; it reports failure only
\* after the fallback was tried and failed.
C20_FallbackOrder ==
    call.op = "extracted" =>
        LET tried(m) == \E k \in 1..Len(call.strategies) : call.strategies[k] = m
        IN  /\ call.strategies[1] = "moviepy"
            /\ tried("ffmpeg") <=> call.primary # "ok"
            /\ tried("ffmpeg") => call.strategies = <<"moviepy", "ffmpeg">>
            /\ call.ret = None <=> (call.primary # "ok" /\ call.ffmpeg # "ok")
            /\ call.ret = None => tried("ffmpeg")

C20_Witness ==
    /\ call.op = "extracted"
    /\ call.primary = "no_stream"
    /\ call.ffmpeg = "nonzero"
    /\ call.ret = None

\* C21: a failed extraction tells "the video has no audio stream" apart from
\* "a stream is present but both strategies failed": the value the
\* extractor returns, and the value process_video_audio hands on for it,
\* differ between the two situations.
C21_NoTrackDistinguished ==
    (call.op = "extracted" /\ call.ret = None) =>
        \A b \in ExtractorInputs :
            LET audio_of(x) ==
                    process_video_audio([primary |-> x.primary,
                                         ffmpeg |-> x.ffmpeg, convert |-> "ok",
                                         recog |-> "text", text |-> "ok"]).ret
            IN  (/\ extract_audio_from_video(b).ret = None
                 /\ (b.primary = "no_stream") # (call.primary = "no_stream")) =>
                    /\ extract_audio_from_video(b).ret # call.ret
                    /\ audio_of(b) # audio_of(call)

\* C22: a video with frame count <= 0 makes the frame path fail before any
\* frame is read: no inference call, no summary call, and the failure is
\* reported as a failure (a frames-only job is stored as failed, a
\* comprehensive result does not carry the message as its visual_analysis).
C22_EmptyVideoFails ==
    \A t \in 1..Len(threads) :
        LET th == threads[t]
        IN  (/\ Ran(t)
             /\ th.run.frames_runs = 1
             /\ th.run.visual.ret = MSG_EMPTY_VIDEO) =>
                /\ th.run.visual.calls = 0
                /\ th.run.visual.summary = "none"
                /\ th.processing_type = "auto" =>
                      th.result.visual_analysis # MSG_EMPTY_VIDEO
                /\ th.processing_type # "auto" =>
                      StatusFor(th.processing_type, th.run, th.result) = "failed"

\* C23: the aggregate of the frame path holds the texts of exactly the
\* frames whose inference call succeeded, one entry per successful call in
\* frame order; a frame whose call failed contributes nothing.
C23_AggregateOnlySuccesses ==
    \A t \in 1..Len(threads) :
        LET x == threads[t].run.visual
        IN  (Ran(t) /\ threads[t].run.frames_runs = 1) =>
                /\ x.ok <= x.calls
                /\ Len(x.results) = x.ok
                /\ \A k \in 1..Len(x.results) : x.results[k] = TEXT

\* C24: when some frame succeeded and the summary call fails, the frame
\* path does not return an error message in the place of the analysis (it
\* returns the per-frame texts).
C24_SummaryFailureFallsBack ==
    \A t \in 1..Len(threads) :
        LET x == threads[t].run.visual
        IN  (/\ Ran(t)
             /\ threads[t].run.frames_runs = 1
             /\ x.ok >= 1
             /\ x.summary \in {"empty", "exc"}) =>
                x.ret \notin {MSG_SUM_EMPTY, MSG_SUM_EXC, MSG_FRAMES_EXC,
                              MSG_NO_FRAMES}

\* the worker t ran a comprehensive job in which both paths succeeded and
\* the combination call was issued and failed
CombinationFailed(t) ==
    /\ threads[t].processing_type \in Comprehensive
    /\ VisualSucceeded(threads[t].run)
    /\ AudioSucceeded(threads[t].run)
    /\ threads[t].run.combine_calls = 1
    /\ threads[t].result.combined_analysis # TEXT

C27_ConversionNeverBlocks ==
    \A t \in 1..Len(threads) :
        LET x == threads[t].run.audio
        IN  (/\ Ran(t)
             /\ threads[t].run.audio_runs = 1
             /\ x.strategies # <<>>
             /\ IF x.isdict THEN TRUE ELSE x.ret # MSG_NO_AUDIO) =>
                x.wav_path = AUDIO_PATH

\* C28: jobs are independent: a step changes the registry record of job B
\* only if it is a submission for B or a step of a worker of B; a step of
\* another job's worker, another job's submission and every poll leave the
\* record of B as it is, and no record is ever removed.
C28_JobsIndependent ==
    [][\A B \in DOMAIN processing_jobs :
          /\ B \in DOMAIN processing_jobs'
          /\ (\/ DOMAIN processing_jobs'[B] # DOMAIN processing_jobs[B]
              \/ processing_jobs'[B] # processing_jobs[B]) =>
                \/ /\ Len(threads') > Len(threads)
                   /\ threads'[Len(threads')].job_id = B
                \/ \E t \in 1..Len(threads) :
                      /\ threads[t].job_id = B
                      /\ threads'[t].pc # threads[t].pc]_vars

\* two different jobs are in the registry, the worker of one has stored
\* its result while the worker of the other is still in its pipeline
C28_Witness ==
    \E t, u \in 1..Len(threads) :
        /\ threads[t].job_id # threads[u].job_id
        /\ threads[t].pc = "done"
        /\ threads[u].pc = "run"
        /\ processing_jobs[threads[t].job_id].status \in Terminal
        /\ processing_jobs[threads[u].job_id].status = "processing"

\* C29: every index a sampler selects lies in 0 .. frameCount-1 and no
\* index is selected twice, whether or not frameCount is a multiple of
\* maxFrames.
C29_IndicesInRangeDistinct ==
    call.op = "sampled" =>
        /\ \A i \in 1..Len(call.frame_indices) :
              /\ call.frame_indices[i] >= 0
              /\ call.frame_indices[i] <= call.frame_count - 1
        /\ \A i, j \in 1..Len(call.frame_indices) :
              i # j => call.frame_indices[i] # call.frame_indices[j]

C29_Witness ==
    /\ call.op = "sampled"
    /\ call.frame_count > call.max_frames
    /\ call.frame_count % call.max_frames # 0
    /\ Len(call.frame_indices) >= 3

\* C30: in every result of the comprehensive pipeline has_audio is true
\* exactly when the audio path returned a transcript/analysis pair,
\* audio_error is present only when the audio path ran and failed, the two
\* never occur together, and when the audio path did not run has_audio is
\* false and audio_error is absent.
C30_HasAudioConsistent ==
    \A t \in 1..Len(threads) :
        LET th == threads[t]
        IN  (/\ Ran(t)
             /\ ~th.raised
             /\ th.processing_type \in Comprehensive
             /\ ~Has(th.result, "error")) =>
                /\ th.result.has_audio <=> AudioSucceeded(th.run)
                /\ Has(th.result, "audio_error") =>
                      (th.run.audio_runs = 1 /\ ~th.run.audio.isdict)
                /\ ~(th.result.has_audio /\ Has(th.result, "audio_error"))
                /\ th.run.audio_runs = 0 =>
                      (~th.result.has_audio /\ ~Has(th.result, "audio_error"))

C30_Witness ==
    \E t \in 1..Len(threads) :
        /\ Ran(t)
        /\ ~threads[t].raised
        /\ threads[t].processing_type = "auto"
        /\ ~Has(threads[t].result, "error")
        /\ threads[t].run.audio_runs = 1
        /\ ~threads[t].run.audio.isdict
        /\ Has(threads[t].result, "audio_error")
        /\ ~threads[t].result.has_audio

====
